---- MODULE Spec2Model ----
(***************************************************************************)
(* A model of agent_prompt_registry: the SQLite-backed PromptRegistry      *)
(* (registry.py) with its four tables, and the operations register,        *)
(* rollback, get, get_variant, create_experiment and record_outcome.       *)
(*                                                                         *)
(* A Python dict is modelled as the sequence of its <<key, value>> pairs   *)
(* in insertion order; an Optional argument as a record with a `some`      *)
(* flag.  An operation that raises leaves the database as it was (its      *)
(* connection is dropped without commit) and reports the exception in      *)
(* `ret`; an operation that returns reports its value in `ret`.            *)
(***************************************************************************)
EXTENDS Integers, Sequences, FiniteSets, TLC

\* ---------------------------------------------------------------- bounds
PromptNames == {"p1", "p2"}
Contents == {"x", "y"}
VariantNames == {"a", "b", "c"}
MaxVersion == 2
MaxOutcomes == 1

\* ---------------------------------------------------------------- state
MaxThreads == 2
MaxTrials == 40

VARIABLES prompts, prompt_versions, experiments, experiment_outcomes, ret,
          connections, arguments

vars == <<prompts, prompt_versions, experiments, experiment_outcomes, ret,
          connections, arguments>>
tables == <<prompts, prompt_versions, experiments, experiment_outcomes>>

None == "None"

\* Optional[...] arguments
Nothing == [some |-> FALSE]
Some(v) == [some |-> TRUE, val |-> v]

\* ---------------------------------------------------------------- dicts
Keys(d) == {d[i][1] : i \in 1..Len(d)}
Lookup(d, k) == d[CHOOSE i \in 1..Len(d) : d[i][1] = k][2]

RECURSIVE SumWeights(_)
SumWeights(d) ==
  IF d = <<>> THEN 0 ELSE d[1][2] + SumWeights(Tail(d))

\* ---------------------------------------------------------------- results
Return(op, name, value) ==
  /\ ret' = [op |-> op, name |-> name, status |-> "ok", value |-> value]
  /\ UNCHANGED <<connections, arguments>>

Raise(op, name, error) ==
  /\ ret' = [op |-> op, name |-> name, status |-> error, value |-> <<>>]
  /\ UNCHANGED <<connections, arguments>>
  /\ UNCHANGED tables

\* ---------------------------------------------------------------- threads
\* Threads that call record_outcome at the same time, each on its own
\* connection to the database file.
Threads == 1..MaxThreads

Idle ==
  [pc |-> "idle", prompt_name |-> None, variant |-> None, success |-> FALSE,
   experiment_name |-> None, status |-> None]

\* ---------------------------------------------------------------- schema
Init ==
  /\ prompts = <<>>
  /\ prompt_versions = {}
  /\ experiments = {}
  /\ experiment_outcomes = <<>>
  /\ ret = [op |-> "init", name |-> "", status |-> "ok", value |-> <<>>]
  /\ connections = [t \in Threads |-> Idle]
  /\ arguments = <<>>

\* UNIQUE(prompt_name, version) of prompt_versions
VersionExists(name, version) ==
  \E r \in prompt_versions : r.prompt_name = name /\ r.version = version

ExperimentExistsNever(experiment_name) == FALSE

\* name TEXT PRIMARY KEY of experiments
ExperimentExists(experiment_name) ==
  \E e \in experiments : e.name = experiment_name

\* ---------------------------------------------------------------- register
register(name, prompt) ==
  IF name \in DOMAIN prompts
  THEN LET new_version == prompts[name].current_version + 1 IN
       IF VersionExists(name, new_version)
       THEN Raise("register", name, "IntegrityError")
       ELSE /\ prompts' = [prompts EXCEPT ![name].current_version = new_version]
            /\ prompt_versions' = prompt_versions \cup
                 {[prompt_name |-> name, version |-> new_version, content |-> prompt]}
            /\ UNCHANGED <<experiments, experiment_outcomes>>
            /\ Return("register", name, <<new_version, prompt>>)
  ELSE /\ prompts' = (name :> [current_version |-> 1, active_experiment |-> None]) @@ prompts
       /\ prompt_versions' = prompt_versions \cup
            {[prompt_name |-> name, version |-> 1, content |-> prompt]}
       /\ UNCHANGED <<experiments, experiment_outcomes>>
       /\ Return("register", name, <<1, prompt>>)

\* ---------------------------------------------------------------- rollback
rollback(name, version) ==
  IF ~VersionExists(name, version)
  THEN Raise("rollback", name, "ValueError")
  ELSE /\ prompts' = [n \in DOMAIN prompts |->
                        IF n = name THEN [prompts[n] EXCEPT !.current_version = version]
                                    ELSE prompts[n]]
       /\ UNCHANGED <<prompt_versions, experiments, experiment_outcomes>>
       /\ Return("rollback", name, <<>>)

\* ---------------------------------------------------------------- get
LatestRows(name) ==
  {r \in prompt_versions :
     /\ r.prompt_name = name
     /\ \A q \in prompt_versions : q.prompt_name = name => q.version <= r.version}

\* prompt_versions pv JOIN prompts p ON pv.prompt_name = p.name
\*   AND pv.version = p.current_version WHERE p.name = ?
CurrentRows(name) ==
  {r \in prompt_versions :
     /\ r.prompt_name = name
     /\ name \in DOMAIN prompts
     /\ r.version = prompts[name].current_version}

\* get(name) with version = None and no variables: the content of the row
\* joined on current_version, or KeyError
get(op, name, variant) ==
  IF CurrentRows(name) = {}
  THEN Raise(op, name, "KeyError")
  ELSE \E row \in CurrentRows(name) :
         /\ Return(op, name, <<row.content, variant>>)
         /\ UNCHANGED tables

\* ---------------------------------------------------------------- experiments
ExperimentName(name) == name \o "-experiment"

ExperimentVariant(name, content, weight) ==
  [name |-> name, content |-> content, weight |-> weight, trials |-> 0, successes |-> 0]

\* json.dumps({k: {"content": v.content, "weight": v.weight} ...}): the pairs in
\* insertion order, two fields kept of each variant
json_dumps(experiment_variants) ==
  [i \in 1..Len(experiment_variants) |->
     <<experiment_variants[i][1],
       [content |-> experiment_variants[i][2].content,
        weight |-> experiment_variants[i][2].weight]>>]

\* json.loads of a stored variants column: the dict of its pairs, in order
json_loads(text) ==
  [i \in 1..Len(text) |-> <<text[i][1], text[i][2]>>]

RunningAnywhere(name) == {e \in experiments : e.status = "running"}

\* SELECT ... FROM experiments WHERE prompt_name = ? AND status = 'running'
RunningExperiments(name) ==
  {e \in experiments : e.prompt_name = name /\ e.status = "running"}

\* traffic_split = {k: 100 // len(variants) for k in variants}
EqualSplit(variants) ==
  [i \in 1..Len(variants) |-> <<variants[i][1], 100 \div Len(variants)>>]

SplitAcceptedAtMost(traffic_split) == SumWeights(traffic_split) <= 100

\* sum(traffic_split.values()) != 100 raises
SplitAccepted(traffic_split) == SumWeights(traffic_split) = 100

create_experiment(name, variants, traffic_split) ==
  IF ~traffic_split.some /\ Len(variants) = 0
  THEN Raise("create_experiment", name, "ZeroDivisionError")
  ELSE
  LET split == IF traffic_split.some THEN traffic_split.val ELSE EqualSplit(variants) IN
  IF ~SplitAccepted(split)
  THEN Raise("create_experiment", name, "ValueError")
  ELSE IF ~(Keys(variants) \subseteq Keys(split))
  THEN Raise("create_experiment", name, "KeyError")
  ELSE
  LET experiment_variants ==
        [i \in 1..Len(variants) |->
           <<variants[i][1],
             ExperimentVariant(variants[i][1], variants[i][2], Lookup(split, variants[i][1]))>>]
      experiment ==
        [name |-> ExperimentName(name),
         prompt_name |-> name,
         variants |-> json_dumps(experiment_variants),
         status |-> "running",
         completed_at |-> None,
         winner |-> None,
         confidence |-> None]
  IN
  IF ExperimentExists(experiment.name)
  THEN Raise("create_experiment", name, "IntegrityError")
  ELSE /\ experiments' = experiments \cup {experiment}
       /\ prompts' = [n \in DOMAIN prompts |->
                        IF n = name
                        THEN [prompts[n] EXCEPT !.active_experiment = experiment.name]
                        ELSE prompts[n]]
       /\ UNCHANGED <<prompt_versions, experiment_outcomes>>
       /\ Return("create_experiment", name, <<experiment.name>>)

\* ---------------------------------------------------------------- outcomes
record_outcome(prompt_name, variant, success) ==
  IF RunningExperiments(prompt_name) = {}
  THEN Raise("record_outcome", prompt_name, "ValueError")
  ELSE \E row \in RunningExperiments(prompt_name) :
         /\ experiment_outcomes' = Append(experiment_outcomes,
              [experiment_name |-> row.name, variant |-> variant,
               success |-> IF success THEN 1 ELSE 0])
         /\ UNCHANGED <<prompts, prompt_versions, experiments>>
         /\ Return("record_outcome", prompt_name, <<>>)

\* ---------------------------------------------------------------- concurrent outcomes
\* record_outcome statement by statement, on the connection of thread t.
\* SQLite gives the SELECT a shared lock until its cursor is exhausted, the
\* INSERT the one reserved (writer) lock until the commit, and the commit needs
\* that no other connection reads; a lock not obtained within the busy timeout
\* raises OperationalError, and the connection is dropped with its INSERT.
database_is_lockedIgnored == "ok"

database_is_locked == "OperationalError"

HoldsShared(t) == connections[t].pc = "fetchone"
HoldsReserved(t) == connections[t].pc = "commit"

UNCHANGED_but_connection(t, connection) ==
  /\ connections' = [connections EXCEPT ![t] = connection]
  /\ UNCHANGED <<prompts, prompt_versions, experiments, ret, arguments>>

connect(t, prompt_name, variant, success) ==
  /\ connections[t].pc = "idle"
  /\ UNCHANGED_but_connection(t,
       [connections[t] EXCEPT !.pc = "select", !.prompt_name = prompt_name,
                              !.variant = variant, !.success = success])
  /\ UNCHANGED experiment_outcomes

select_experiment(t) ==
  /\ connections[t].pc = "select"
  /\ \/ /\ RunningExperiments(connections[t].prompt_name) = {}
        /\ UNCHANGED_but_connection(t, [connections[t] EXCEPT !.pc = "fetchone"])
     \/ \E row \in RunningExperiments(connections[t].prompt_name) :
          UNCHANGED_but_connection(t,
            [connections[t] EXCEPT !.pc = "fetchone", !.experiment_name = row.name])
  /\ UNCHANGED experiment_outcomes

fetchone(t) ==
  /\ connections[t].pc = "fetchone"
  /\ IF connections[t].experiment_name = None
     THEN UNCHANGED_but_connection(t,
            [connections[t] EXCEPT !.pc = "done", !.status = "ValueError"])
     ELSE UNCHANGED_but_connection(t, [connections[t] EXCEPT !.pc = "insert"])
  /\ UNCHANGED experiment_outcomes

insert_outcome(t) ==
  /\ connections[t].pc = "insert"
  /\ IF \E u \in Threads \ {t} : HoldsReserved(u)
     THEN UNCHANGED_but_connection(t,
            [connections[t] EXCEPT !.pc = "done", !.status = database_is_locked])
     ELSE UNCHANGED_but_connection(t, [connections[t] EXCEPT !.pc = "commit"])
  /\ UNCHANGED experiment_outcomes

commit(t) ==
  /\ connections[t].pc = "commit"
  /\ IF \E u \in Threads \ {t} : HoldsShared(u)
     THEN /\ UNCHANGED_but_connection(t,
               [connections[t] EXCEPT !.pc = "done", !.status = database_is_locked])
          /\ UNCHANGED experiment_outcomes
     ELSE /\ experiment_outcomes' = Append(experiment_outcomes,
               [experiment_name |-> connections[t].experiment_name,
                variant |-> connections[t].variant,
                success |-> IF connections[t].success THEN 1 ELSE 0])
          /\ UNCHANGED_but_connection(t,
               [connections[t] EXCEPT !.pc = "done", !.status = "ok"])

\* ---------------------------------------------------------------- results
\* the order of text under SQLite's BINARY collation, for the names used here
CollationOrder == <<"a", "b", "c", "p1", "p2", "total_trials", "winner">>
Rank(k) == CHOOSE i \in 1..Len(CollationOrder) : CollationOrder[i] = k

RECURSIVE Sorted(_)
Sorted(names) ==
  IF names = {} THEN <<>>
  ELSE LET k == CHOOSE n \in names : \A m \in names : Rank(n) <= Rank(m)
       IN <<k>> \o Sorted(names \ {k})

RECURSIVE Orders(_)
Orders(names) ==
  IF names = {} THEN {<<>>}
  ELSE UNION {{<<k>> \o t : t \in Orders(names \ {k})} : k \in names}

OutcomesOf(experiment_name) ==
  {i \in 1..Len(experiment_outcomes) :
     experiment_outcomes[i].experiment_name = experiment_name}

\* one row (variant, SUM(success), COUNT( * )) of the aggregate query
GroupRow(experiment_name, variant) ==
  LET of == {i \in OutcomesOf(experiment_name) : experiment_outcomes[i].variant = variant}
  IN <<variant,
       Cardinality({i \in of : experiment_outcomes[i].success = 1}),
       Cardinality(of)>>

GroupByVariantAnyOrder(experiment_name) ==
  LET names == {experiment_outcomes[i].variant : i \in OutcomesOf(experiment_name)}
  IN {[i \in 1..Len(order) |-> GroupRow(experiment_name, order[i])] : order \in Orders(names)}

\* SELECT variant, SUM(success), COUNT( * ), AVG(success) FROM experiment_outcomes
\* WHERE experiment_name = ? GROUP BY variant: the row sequences fetchall() can
\* return.  SQLite groups through a sort on the grouping column, so the rows
\* come in the order of the variant names.
GroupByVariant(experiment_name) ==
  LET names == {experiment_outcomes[i].variant : i \in OutcomesOf(experiment_name)}
      order == Sorted(names)
  IN {[i \in 1..Len(order) |-> GroupRow(experiment_name, order[i])]}

\* the values of the results dict
Stats(trials, successes) ==
  [kind |-> "dict", trials |-> trials, successes |-> successes,
   success_rate |-> (10000 * successes + trials \div 2) \div trials]
Str(v) == IF v = None THEN [kind |-> "None"] ELSE [kind |-> "str", val |-> v]
Number(n) == [kind |-> "int", val |-> n]

\* d[k] = v
DictSet(d, k, v) ==
  IF k \in Keys(d)
  THEN [i \in 1..Len(d) |-> IF d[i][1] = k THEN <<k, v>> ELSE d[i]]
  ELSE Append(d, <<k, v>>)

\* the loop over the fetched rows: best_rate is kept as the fraction
\* best_rate[1] / best_rate[2]
RECURSIVE ResultsLoop(_, _, _, _, _)
ResultsLoop(outcomes, i, results, best_variant, best_rate) ==
  IF i > Len(outcomes)
  THEN [results |-> results, best_variant |-> best_variant]
  ELSE LET variant == outcomes[i][1]
           successes == outcomes[i][2]
           trials == outcomes[i][3]
           stored == DictSet(results, variant, Stats(trials, successes))
       IN IF successes * best_rate[2] > best_rate[1] * trials
          THEN ResultsLoop(outcomes, i + 1, stored, variant, <<successes, trials>>)
          ELSE ResultsLoop(outcomes, i + 1, stored, best_variant, best_rate)

\* sum(r["trials"] for r in results.values() if isinstance(r, dict) and "trials" in r)
RECURSIVE SumTrials(_)
SumTrials(results) ==
  IF results = <<>> THEN 0
  ELSE (IF results[1][2].kind = "dict" THEN results[1][2].trials ELSE 0)
       + SumTrials(Tail(results))

\* the dicts get_experiment_results can return for a running experiment
ExperimentResults(experiment_name) ==
  {LET loop == ResultsLoop(outcomes, 1, <<>>, None, <<0, 1>>)
       with_winner == DictSet(loop.results, "winner", Str(loop.best_variant))
   IN DictSet(with_winner, "total_trials", Number(SumTrials(with_winner)))
   : outcomes \in GroupByVariant(experiment_name)}

get_experiment_results(prompt_name) ==
  IF RunningExperiments(prompt_name) = {}
  THEN /\ Return("get_experiment_results", prompt_name, <<>>)
       /\ UNCHANGED tables
  ELSE \E row \in RunningExperiments(prompt_name) :
       \E results \in ExperimentResults(row.name) :
         /\ Return("get_experiment_results", prompt_name, results)
         /\ UNCHANGED tables

\* ---------------------------------------------------------------- export
\* SELECT name, current_version, active_experiment, tags FROM prompts ORDER BY name
\* (register is called without tags, which stores [])
list_prompts ==
  LET order == Sorted(DOMAIN prompts)
  IN [i \in 1..Len(order) |->
        [name |-> order[i],
         current_version |-> prompts[order[i]].current_version,
         active_experiment |-> prompts[order[i]].active_experiment,
         tags |-> <<>>]]

\* rows ORDER BY version DESC
RECURSIVE VersionDesc(_)
VersionDesc(rows) ==
  IF rows = {} THEN <<>>
  ELSE LET top == CHOOSE r \in rows : \A q \in rows : q.version <= r.version
       IN <<[version |-> top.version, content |-> top.content]>>
            \o VersionDesc(rows \ {top})

get_history(name) ==
  VersionDesc({r \in prompt_versions : r.prompt_name = name})

\* the dict that yaml.dump writes to filepath
export(filepath) ==
  LET export_data ==
        [i \in 1..Len(list_prompts) |->
           LET p == list_prompts[i]
               history == get_history(p.name)
           IN <<p.name,
                [content |-> IF history # <<>> THEN history[1].content ELSE "",
                 version |-> p.current_version,
                 tags |-> p.tags]>>]
  IN /\ Return("export", filepath, export_data)
     /\ UNCHANGED tables

\* ---------------------------------------------------------------- get_variant
\* sum(v["weight"] for v in variants_data.values())
TotalWeight(variants_data) ==
  SumWeights([i \in 1..Len(variants_data) |->
                <<variants_data[i][1], variants_data[i][2].weight>>])

DrawsFromZero(total_weight) == 0..total_weight

\* the values random.randint(1, total_weight) can return
Draws(total_weight) == 1..total_weight

\* the selection loop, from variant i on with `cumulative` accumulated so far
RECURSIVE WalkVariants(_, _, _, _)
WalkVariants(variants_data, rand, i, cumulative) ==
  IF i > Len(variants_data)
  THEN None
  ELSE LET c == cumulative + variants_data[i][2].weight IN
       IF rand <= c
       THEN variants_data[i][1]
       ELSE WalkVariants(variants_data, rand, i + 1, c)

SelectVariant(variants_data, rand) == WalkVariants(variants_data, rand, 1, 0)

get_variant(name, rand) ==
  IF RunningExperiments(name) = {}
  THEN get("get_variant", name, "default")
  ELSE \E row \in RunningExperiments(name) :
         LET variants_data == json_loads(row.variants)
             total_weight == TotalWeight(variants_data)
         IN
         IF Draws(total_weight) = {}
         THEN Raise("get_variant", name, "ValueError")
         ELSE /\ rand \in Draws(total_weight)
              /\ LET selected_variant == SelectVariant(variants_data, rand) IN
                 IF selected_variant \notin Keys(variants_data)
                 THEN Raise("get_variant", name, "KeyError")
                 ELSE /\ Return("get_variant", name,
                           <<Lookup(variants_data, selected_variant).content,
                             selected_variant>>)
                      /\ UNCHANGED tables

\* ---------------------------------------------------------------- significance
\* experiment.py computes in floats. Here a float in [-1, 1] is an integer
\* number of ten-thousandths, a rate is the pair <<successes, trials>>, and z
\* is its sign with z * z to four decimals.
One == 10000
MinTrials == 30

\* floor(n * 10^digits / d), digit by digit
RECURSIVE Decimals(_, _, _)
Decimals(r, d, digits) ==
  IF digits = 0 THEN 0
  ELSE ((r * 10) \div d) * 10^(digits - 1) + Decimals((r * 10) % d, d, digits - 1)

Quotient(n, d) == (n \div d) * One + Decimals(n % d, d, 4)

Sign(n) == IF n > 0 THEN 1 ELSE IF n < 0 THEN -1 ELSE 0

\* math.erf(x / math.sqrt(2)) as a step function of x * x: the pairs of a
\* value and the least x * x at which the float result reaches it
ErfSteps ==
  <<<<0, 0>>, <<5000, 4550>>, <<8000, 16424>>, <<9000, 27056>>, <<9500, 38415>>,
    <<9900, 66349>>, <<9990, 108276>>, <<10000, 679637>>>>

erf_sqrt2(x) ==
  LET reached == {i \in 1..Len(ErfSteps) : x.square >= ErfSteps[i][2]}
      top == CHOOSE i \in reached : \A j \in reached : j <= i
  IN x.sign * ErfSteps[top][1]

signed(x) == x

abs(x) == [x EXCEPT !.sign = IF x.sign < 0 THEN -x.sign ELSE x.sign]

\* 0.5 * (1 + math.erf(x / math.sqrt(2))), in halves of a ten-thousandth
_normal_cdf(x) == One + erf_sqrt2(x)

TooFewTrialsBoth(a_trials, b_trials) ==
  a_trials < MinTrials /\ b_trials < MinTrials

TooFewTrials(a_trials, b_trials) ==
  a_trials < MinTrials \/ b_trials < MinTrials

\* se == 0, where se * se =
\* successes * (trials - successes) * trials / (trials * trials * a_trials * b_trials)
SeIsZeroWithoutSuccess(successes, trials) == successes = 0

SeIsZero(successes, trials) == successes * (trials - successes) = 0

\* the value returned, or the exception of a division by zero
calculate_significance(a_trials, a_successes, b_trials, b_successes, confidence_level) ==
  IF TooFewTrials(a_trials, b_trials)
  THEN [status |-> "ok", value |-> <<FALSE, 0, None>>]
  ELSE IF a_trials = 0 \/ b_trials = 0 \/ a_trials + b_trials = 0
  THEN [status |-> "ZeroDivisionError"]
  ELSE
  LET successes == a_successes + b_successes
      trials == a_trials + b_trials
      \* p_a - p_b = difference / (a_trials * b_trials)
      difference == a_successes * b_trials - b_successes * a_trials
  IN
  IF SeIsZero(successes, trials)
  THEN [status |-> "ok", value |-> <<FALSE, 0, None>>]
  ELSE IF successes * (trials - successes) = 0
  THEN [status |-> "ZeroDivisionError"]
  ELSE
  LET z == [sign |-> Sign(difference),
            square |-> Quotient(difference * difference * trials,
                                a_trials * b_trials * successes * (trials - successes))]
      p_value == 2 * One - _normal_cdf(abs(z))
      confidence == One - p_value
      is_significant == confidence >= confidence_level
      winner == IF is_significant
                THEN (IF difference > 0 THEN "a" ELSE "b")
                ELSE None
  IN [status |-> "ok", value |-> <<is_significant, confidence, winner>>]

\* round(n / d), a tie going either way (the float being rounded is itself
\* rounded)
Round(n, d) ==
  LET q == (Sign(n) * n) \div d
      r == (Sign(n) * n) % d
  IN {Sign(n) * k : k \in {k \in {q, q + 1} : (k = q /\ 2 * r <= d) \/ (k = q + 1 /\ 2 * r >= d)}}

Rate(data) ==
  IF data.trials > 0 THEN <<data.successes, data.trials>> ELSE <<0, 1>>

\* round(lift, 2), in hundredths of a percent
Lift(a_rate, b_rate) ==
  IF a_rate[1] > 0
  THEN Round((b_rate[1] * a_rate[2] - a_rate[1] * b_rate[2]) * 100 * 100,
             b_rate[2] * a_rate[1])
  ELSE {0}

analyze_experiment(results, confidence_level) ==
  IF Len(results) # 2
  THEN Raise("analyze_experiment", "", "ValueError")
  ELSE
  LET a == results[1][1]
      b == results[2][1]
      a_data == results[1][2]
      b_data == results[2][2]
      significance == calculate_significance(a_data.trials, a_data.successes,
                                             b_data.trials, b_data.successes,
                                             confidence_level)
  IN
  IF significance.status # "ok"
  THEN Raise("analyze_experiment", "", significance.status)
  ELSE
  LET winner_code == significance.value[3]
      winner == IF winner_code = "a" THEN a
                ELSE IF winner_code = "b" THEN b ELSE None
  IN \E lift \in Lift(Rate(a_data), Rate(b_data)) :
       /\ Return("analyze_experiment", "",
                 [variant_a |-> a, variant_b |-> b,
                  a_trials |-> a_data.trials, a_successes |-> a_data.successes,
                  b_trials |-> b_data.trials, b_successes |-> b_data.successes,
                  winner |-> winner, confidence |-> significance.value[2],
                  lift |-> lift])
       /\ UNCHANGED tables

\* ---------------------------------------------------------------- inputs
\* the variants dicts tried: every order of up to three names, each name with
\* its own text
VariantText(k) == "text-" \o k

RECURSIVE DictsOver(_)
DictsOver(names) ==
  {<<>>} \cup UNION {{<<<<k, VariantText(k)>>>> \o d : d \in DictsOver(names \ {k})} : k \in names}

VariantDicts == DictsOver(VariantNames)

Weights == {-50, 0, 50, 100}

RECURSIVE SplitsOver(_)
SplitsOver(names) ==
  IF names = {} THEN {<<>>}
  ELSE LET k == CHOOSE n \in names : TRUE
           rest == SplitsOver(names \ {k})
       IN rest \cup {<<<<k, w>>>> \o d : w \in Weights, d \in rest}

TrafficSplits == {Nothing} \cup {Some(d) : d \in SplitsOver(VariantNames)}

\* ---------------------------------------------------------------- calls
\* The calls a client can make, with their arguments drawn from the given sets.
Register(names, contents) ==
  \E name \in names, prompt \in contents :
    /\ Cardinality({r \in prompt_versions : r.prompt_name = name}) < MaxVersion
    /\ register(name, prompt)

Rollback(names) ==
  \E name \in names, version \in 1..MaxVersion : rollback(name, version)

CreateExperiment(names, dicts, splits) ==
  \E name \in names, variants \in dicts, traffic_split \in splits :
    create_experiment(name, variants, traffic_split)

RecordOutcome(names, variants, flags) ==
  \E name \in names, variant \in variants, success \in flags :
    /\ Len(experiment_outcomes) < MaxOutcomes \/ RunningExperiments(name) = {}
    /\ record_outcome(name, variant, success)

GetVariant(names, draws) ==
  \E name \in names, rand \in draws : get_variant(name, rand)

GetExperimentResults(names) ==
  \E name \in names : get_experiment_results(name)

\* register and rollback with up to cap versions of a prompt; a register that
\* adds no version is always let through
RegisterWithin(cap, names, contents) ==
  \E name \in names, prompt \in contents :
    /\ \/ Cardinality({r \in prompt_versions : r.prompt_name = name}) < cap
       \/ /\ name \in DOMAIN prompts
          /\ VersionExists(name, prompts[name].current_version + 1)
    /\ register(name, prompt)

RollbackWithin(cap, names) ==
  \E name \in names, version \in 1..cap : rollback(name, version)

Export == export("prompts.yaml")

RecordOutcomeWithin(cap, names, variants, flags) ==
  \E name \in names, variant \in variants, success \in flags :
    /\ Len(experiment_outcomes) < cap \/ RunningExperiments(name) = {}
    /\ record_outcome(name, variant, success)

\* ---------------------------------------------------------------- the registry
\* Every operation on two prompts, with few arguments each.
FewVariantDicts == {<<<<"a", "text-a">>, <<"b", "text-b">>>>}
FewTrafficSplits ==
  {Nothing,
   Some(<<<<"a", 70>>, <<"b", 30>>>>),
   Some(<<<<"a", 60>>, <<"b", 30>>>>),
   Some(<<<<"a", 70>>, <<"b", 40>>>>)}

Next ==
  \/ Register(PromptNames, {"x"})
  \/ Rollback(PromptNames)
  \/ CreateExperiment(PromptNames, FewVariantDicts, FewTrafficSplits)
  \/ RecordOutcome(PromptNames, {"a", "c"}, {TRUE})

Spec == Init /\ [][Next]_vars

\* ---------------------------------------------------------------- the allocator
\* create_experiment with every variants dict and traffic split, and get_variant
\* with every draw, on one prompt.
AllDraws == 0..150

NextAllocator ==
  \/ CreateExperiment({"p1"}, VariantDicts, TrafficSplits)
  \/ GetVariant({"p1"}, AllDraws)

SpecAllocator == Init /\ [][NextAllocator]_vars

\* ---------------------------------------------------------------- the versions
\* register and rollback with two contents, an experiment on one prompt, and
\* get_variant on both.
NextVersions ==
  \/ Register(PromptNames, Contents)
  \/ Rollback(PromptNames)
  \/ CreateExperiment({"p1"}, FewVariantDicts, {Nothing})
  \/ GetVariant(PromptNames, {1, 50, 51, 100})

SpecVersions == Init /\ [][NextVersions]_vars

\* ---------------------------------------------------------------- the results
\* One experiment of four variants, among them ones named like the summary
\* keys, outcomes for each of them, and the results query.
MaxRecorded == 3
ResultVariants == {"a", "b", "total_trials", "winner"}
ResultVariantDicts ==
  {<<<<"b", "text-b">>, <<"a", "text-a">>,
     <<"winner", "text-winner">>, <<"total_trials", "text-total_trials">>>>}

NextResults ==
  \/ CreateExperiment({"p1"}, ResultVariantDicts, {Nothing})
  \/ RecordOutcomeWithin(MaxRecorded, {"p1"}, ResultVariants, BOOLEAN)
  \/ GetExperimentResults({"p1"})

SpecResults == Init /\ [][NextResults]_vars

\* ---------------------------------------------------------------- the threads
\* One experiment and MaxThreads threads that each call record_outcome once,
\* their statements interleaved.
Unlocked == \A t \in Threads : ~HoldsShared(t) /\ ~HoldsReserved(t)

NextThreads ==
  \/ Unlocked /\ CreateExperiment({"p1"}, FewVariantDicts, {Nothing})
  \/ \E t \in Threads, variant \in {"a", "b"}, success \in BOOLEAN :
       connect(t, "p1", variant, success)
  \/ \E t \in Threads : select_experiment(t)
  \/ \E t \in Threads : fetchone(t)
  \/ \E t \in Threads : insert_outcome(t)
  \/ \E t \in Threads : commit(t)

SpecThreads == Init /\ [][NextThreads]_vars

\* ---------------------------------------------------------------- the significance
\* calculate_significance and analyze_experiment on every pair of counts with
\* 0, MinTrials - 1, MinTrials or MaxTrials trials, at confidence levels in and
\* out of [0, 1].
TrialCounts == {0, MinTrials - 1, MinTrials, MaxTrials}
ConfidenceLevels == {-1000, 0, 5000, 9500, One, 15000}

SignificanceInputs ==
  {x \in [a_trials : TrialCounts, a_successes : 0..MaxTrials,
          b_trials : TrialCounts, b_successes : 0..MaxTrials,
          confidence_level : ConfidenceLevels] :
     x.a_successes <= x.a_trials /\ x.b_successes <= x.b_trials}

InitSignificance ==
  /\ prompts = <<>>
  /\ prompt_versions = {}
  /\ experiments = {}
  /\ experiment_outcomes = <<>>
  /\ connections = [t \in Threads |-> Idle]
  /\ ret = [op |-> "init", name |-> "", status |-> "ok", value |-> <<>>]
  /\ arguments \in SignificanceInputs

CalculateSignificance ==
  LET result == calculate_significance(arguments.a_trials, arguments.a_successes,
                                       arguments.b_trials, arguments.b_successes,
                                       arguments.confidence_level)
  IN IF result.status = "ok"
     THEN /\ Return("calculate_significance", "", result.value)
          /\ UNCHANGED tables
     ELSE Raise("calculate_significance", "", result.status)

ResultsDict(names) ==
  [i \in 1..Len(names) |->
     <<names[i],
       IF i = 1
       THEN [trials |-> arguments.a_trials, successes |-> arguments.a_successes]
       ELSE [trials |-> arguments.b_trials, successes |-> arguments.b_successes]>>]

AnalyzeExperiment ==
  \E names \in {<<"control">>, <<"control", "treatment">>} :
    analyze_experiment(ResultsDict(names), arguments.confidence_level)

NextSignificance ==
  \/ CalculateSignificance
  \/ AnalyzeExperiment

SpecSignificance == InitSignificance /\ [][NextSignificance]_vars

\* ---------------------------------------------------------------- the history
\* Up to MaxHistory versions of each prompt with two contents, rollback to any
\* of them, and export.
MaxHistory == 3

NextHistory ==
  \/ RegisterWithin(MaxHistory, PromptNames, Contents)
  \/ RollbackWithin(MaxHistory, PromptNames)
  \/ Export

SpecHistory == Init /\ [][NextHistory]_vars

\* ---------------------------------------------------------------- the lifecycle
\* Every operation of the registry on one prompt, called again and again.
NextLifecycle ==
  \/ Register({"p1"}, {"x"})
  \/ Rollback({"p1"})
  \/ CreateExperiment({"p1"}, FewVariantDicts, {Nothing})
  \/ RecordOutcome({"p1"}, {"a", "b"}, BOOLEAN)
  \/ GetVariant({"p1"}, {1, 100})
  \/ GetExperimentResults({"p1"})
  \/ Export

SpecLifecycle == Init /\ [][NextLifecycle]_vars /\ WF_vars(NextLifecycle)

\* ================================================================ claims
HasRunning(name) ==
  \E e \in experiments : e.prompt_name = name /\ e.status = "running"

\* C1: for every template name there is at most one stored experiment whose
\* status is 'running'.
C1_AtMostOneRunning ==
  \A name \in PromptNames :
    Cardinality({e \in experiments : e.prompt_name = name /\ e.status = "running"}) <= 1

\* both prompts have their experiment and a further create_experiment has
\* just been refused
C1_Witness ==
  /\ \A name \in PromptNames : HasRunning(name)
  /\ ret.op = "create_experiment"
  /\ ret.status = "IntegrityError"

\* C2: create_experiment for a template that already has a running experiment
\* raises, and leaves the experiments (variants, weights, status), the outcomes
\* and the prompts (active_experiment) as they were.
C2_SecondCreateRefused ==
  [][\A name \in PromptNames, variants \in FewVariantDicts, traffic_split \in FewTrafficSplits :
       (/\ HasRunning(name)
        /\ ret'.op = "create_experiment"
        /\ create_experiment(name, variants, traffic_split))
         => /\ ret'.status # "ok"
            /\ experiments' = experiments
            /\ experiment_outcomes' = experiment_outcomes
            /\ prompts' = prompts]_vars

\* a create_experiment was refused for a registered prompt whose experiment
\* has an outcome recorded
C2_Witness ==
  /\ ret.op = "create_experiment"
  /\ ret.status = "IntegrityError"
  /\ ret.name \in DOMAIN prompts
  /\ prompts[ret.name].active_experiment = ExperimentName(ret.name)
  /\ \E i \in 1..Len(experiment_outcomes) :
       experiment_outcomes[i].experiment_name = ExperimentName(ret.name)

\* C3: create_experiment with a traffic split that does not sum to 100 raises
\* ValueError and stores nothing: no experiment row, no active_experiment.
C3_BadSplitRefused ==
  [][\A name \in PromptNames, variants \in FewVariantDicts, traffic_split \in FewTrafficSplits :
       (/\ traffic_split.some
        /\ SumWeights(traffic_split.val) # 100
        /\ ret'.op = "create_experiment"
        /\ create_experiment(name, variants, traffic_split))
         => /\ ret'.status = "ValueError"
            /\ experiments' = experiments
            /\ prompts' = prompts]_vars

\* a create_experiment was refused with ValueError for a registered prompt that
\* has no experiment and no active_experiment
C3_Witness ==
  /\ ret.op = "create_experiment"
  /\ ret.status = "ValueError"
  /\ ret.name \in DOMAIN prompts
  /\ prompts[ret.name].active_experiment = None
  /\ ~HasRunning(ret.name)

\* C4: create_experiment without a traffic split succeeds for every number
\* n >= 1 of variants and stores weights that sum to 100.
C4_EqualSplitSucceeds ==
  [][\A variants \in VariantDicts :
       (/\ Len(variants) >= 1
        /\ ~HasRunning("p1")
        /\ ret'.op = "create_experiment"
        /\ create_experiment("p1", variants, Nothing))
         => /\ ret'.status = "ok"
            /\ \A e \in experiments' : TotalWeight(json_loads(e.variants)) = 100]_vars

\* C5: every stored experiment has every variant weight >= 0 and its weights
\* summing to 100.
C5_StoredWeightsValid ==
  \A e \in experiments :
    LET variants_data == json_loads(e.variants) IN
    /\ \A i \in 1..Len(variants_data) : variants_data[i][2].weight >= 0
    /\ TotalWeight(variants_data) = 100

\* the weight accumulated over the first i variants
RECURSIVE PrefixWeight(_, _)
PrefixWeight(variants_data, i) ==
  IF i = 0 THEN 0 ELSE PrefixWeight(variants_data, i - 1) + variants_data[i][2].weight

\* the first variant, in insertion order, whose cumulative weight reaches r
FirstReaching(variants_data, r) ==
  LET hits == {i \in 1..Len(variants_data) : PrefixWeight(variants_data, i) >= r} IN
  IF hits = {} THEN None
  ELSE variants_data[CHOOSE i \in hits : \A j \in hits : i <= j][1]

\* C6: with a running experiment, a draw r in [1, totalWeight] selects the first
\* variant whose cumulative weight reaches r, and when the weights sum to 100
\* exactly weight(v) of the 100 draws select v.
C6_SelectionProportional ==
  \A e \in experiments :
    LET variants_data == json_loads(e.variants)
        total_weight == TotalWeight(variants_data)
    IN
    /\ \A r \in 1..total_weight :
         SelectVariant(variants_data, r) = FirstReaching(variants_data, r)
    /\ total_weight = 100 =>
         \A i \in 1..Len(variants_data) :
           Cardinality({r \in 1..total_weight :
                          SelectVariant(variants_data, r) = variants_data[i][1]})
             = variants_data[i][2].weight

\* C7: a variant of weight 0 is never selected, for any draw and at any
\* position, and get_variant never returns one.
C7_ZeroWeightNeverSelected ==
  /\ \A e \in experiments :
       LET variants_data == json_loads(e.variants) IN
       \A r \in 1..TotalWeight(variants_data), i \in 1..Len(variants_data) :
         variants_data[i][2].weight = 0
           => SelectVariant(variants_data, r) # variants_data[i][1]
  /\ (ret.op = "get_variant" /\ ret.status = "ok" /\ HasRunning(ret.name))
       => \A e \in experiments :
            \A i \in 1..Len(e.variants) :
              (e.prompt_name = ret.name /\ e.variants[i][2].weight = 0)
                => ret.value[2] # e.variants[i][1]

\* get_variant returned the middle variant of an experiment whose first and
\* last variants have weight 0
C7_Witness ==
  /\ ret.op = "get_variant"
  /\ ret.status = "ok"
  /\ \E e \in experiments :
       /\ e.prompt_name = ret.name
       /\ Len(e.variants) = 3
       /\ e.variants[1][2].weight = 0
       /\ e.variants[3][2].weight = 0
       /\ ret.value[2] = e.variants[2][1]

\* C8: without a running experiment get_variant returns "default" with the
\* content of the version current_version points to, never a variant's content.
C8_DefaultIsCurrentVersion ==
  (ret.op = "get_variant" /\ ret.status = "ok" /\ ~HasRunning(ret.name))
    => /\ ret.value[2] = "default"
       /\ \E r \in prompt_versions :
            /\ r.prompt_name = ret.name
            /\ r.version = prompts[ret.name].current_version
            /\ r.content = ret.value[1]
       /\ \A k \in VariantNames : ret.value[1] # VariantText(k)

\* get_variant returned the default for a prompt rolled back to a version whose
\* content differs from the latest one, while the other prompt has an experiment
C8_Witness ==
  /\ ret.op = "get_variant"
  /\ ret.status = "ok"
  /\ ret.value[2] = "default"
  /\ experiments # {}
  /\ \E r \in prompt_versions :
       /\ r.prompt_name = ret.name
       /\ r.version > prompts[ret.name].current_version
       /\ r.content # ret.value[1]

\* C9: record_outcome with a variant that is not one of the running
\* experiment's variants appends nothing, so every stored outcome's variant is
\* a variant of its experiment.
C9_OutcomeVariantsKnown ==
  \A i \in 1..Len(experiment_outcomes) :
    \E e \in experiments :
      /\ e.name = experiment_outcomes[i].experiment_name
      /\ experiment_outcomes[i].variant \in Keys(json_loads(e.variants))

\* C10: record_outcome for a template without a running experiment raises and
\* leaves the stored outcomes unchanged.
C10_NoRunningRefused ==
  [][\A name \in PromptNames, variant \in VariantNames, success \in BOOLEAN :
       (/\ ~HasRunning(name)
        /\ ret'.op = "record_outcome"
        /\ record_outcome(name, variant, success))
         => /\ ret'.status = "ValueError"
            /\ experiment_outcomes' = experiment_outcomes]_vars

\* record_outcome was refused for a prompt without an experiment while the
\* other prompt's experiment has an outcome
C10_Witness ==
  /\ ret.op = "record_outcome"
  /\ ret.status = "ValueError"
  /\ ~HasRunning(ret.name)
  /\ Len(experiment_outcomes) > 0

\* ---------------------------------------------------------------- results claims
\* the outcomes recorded for the experiment of a prompt
Recorded(name) ==
  {i \in 1..Len(experiment_outcomes) :
     \E e \in experiments :
       e.prompt_name = name /\ e.name = experiment_outcomes[i].experiment_name}

RecordedFor(name, variant) ==
  {i \in Recorded(name) : experiment_outcomes[i].variant = variant}

SucceededFor(name, variant) ==
  {i \in RecordedFor(name, variant) : experiment_outcomes[i].success = 1}

SeenVariants(name) == {experiment_outcomes[i].variant : i \in Recorded(name)}

ResultsReturned ==
  ret.op = "get_experiment_results" /\ ret.status = "ok" /\ HasRunning(ret.name)

\* C11: get_experiment_results reports, for each variant with outcomes, trials
\* = the number of its outcomes and successes = the number of its successful
\* ones, and total_trials = the number of outcomes, whatever the variants are
\* called.
C11_ResultsMatchOutcomes ==
  ResultsReturned =>
    /\ \A v \in SeenVariants(ret.name) :
         /\ v \in Keys(ret.value)
         /\ Lookup(ret.value, v).kind = "dict"
         /\ Lookup(ret.value, v).trials = Cardinality(RecordedFor(ret.name, v))
         /\ Lookup(ret.value, v).successes = Cardinality(SucceededFor(ret.name, v))
    /\ "total_trials" \in Keys(ret.value)
    /\ Lookup(ret.value, "total_trials").kind = "int"
    /\ Lookup(ret.value, "total_trials").val = Cardinality(Recorded(ret.name))

\* v's success rate is at least u's
RateAtLeast(name, v, u) ==
  Cardinality(SucceededFor(name, v)) * Cardinality(RecordedFor(name, u))
    >= Cardinality(SucceededFor(name, u)) * Cardinality(RecordedFor(name, v))

FirstSeen(name, v) ==
  CHOOSE i \in RecordedFor(name, v) : \A j \in RecordedFor(name, v) : i <= j

\* the variant of the highest rate, the first seen of those that tie
BestFirstSeen(name) ==
  CHOOSE v \in SeenVariants(name) :
    /\ \A u \in SeenVariants(name) : RateAtLeast(name, v, u)
    /\ \A u \in SeenVariants(name) :
         RateAtLeast(name, u, v) => FirstSeen(name, v) <= FirstSeen(name, u)

\* C12: the winner reported is the variant with the highest success rate, and
\* among several of the highest rate (also when all rates are 0) the one seen
\* first.
C12_WinnerIsBestFirstSeen ==
  (ResultsReturned /\ Recorded(ret.name) # {})
    => Lookup(ret.value, "winner") = Str(BestFirstSeen(ret.name))

\* two dicts with the same keys and values
DictEq(d1, d2) ==
  /\ Keys(d1) = Keys(d2)
  /\ \A k \in Keys(d1) : Lookup(d1, k) = Lookup(d2, k)

Finalized(e) ==
  e.status = "completed" /\ e.completed_at # None

\* the status changes of section 4.5: running <-> paused, running/paused ->
\* completed, and nothing out of completed
LifecycleStep(from, to) ==
  \/ from = to
  \/ from = "running" /\ to \in {"paused", "completed"}
  \/ from = "paused" /\ to \in {"running", "completed"}

\* C14: an experiment's status moves only running <-> paused and
\* running/paused -> completed, a completed experiment keeps its status, winner
\* and confidence, and an experiment is finalized into 'completed' when the
\* operations of the registry keep being called.
C14_Lifecycle ==
  /\ [][\A e \in experiments :
          \E f \in experiments' :
            /\ f.name = e.name
            /\ LifecycleStep(e.status, f.status)
            /\ e.status = "completed"
                 => (f.winner = e.winner /\ f.confidence = e.confidence)]_vars
  /\ \A name \in PromptNames :
       HasRunning(name)
         ~> (\E e \in experiments : e.prompt_name = name /\ Finalized(e))

\* what the code does instead: every stored experiment stays as
\* create_experiment wrote it
C14_NeverFinalized ==
  \A e \in experiments :
    /\ e.status = "running"
    /\ e.completed_at = None /\ e.winner = None /\ e.confidence = None

\* ---------------------------------------------------------------- concurrency claims
\* the record_outcome calls that have returned without an exception
ReturnedOk(variant) ==
  {t \in Threads :
     /\ connections[t].pc = "done" /\ connections[t].status = "ok"
     /\ connections[t].variant = variant}

ReturnedOkWith(variant) == {t \in ReturnedOk(variant) : connections[t].success}

AllReturnedOk == UNION {ReturnedOk(v) : v \in VariantNames}

TrialsIn(results, variant) ==
  IF variant \in Keys(results) THEN Lookup(results, variant).trials ELSE 0

SuccessesIn(results, variant) ==
  IF variant \in Keys(results) THEN Lookup(results, variant).successes ELSE 0

\* C15: whatever the interleaving of concurrent record_outcome calls on a
\* running experiment, its results show as many trials in total as calls have
\* returned successfully, and for each variant as many trials and successes
\* as the successful calls made for it.
C15_NoLostOutcome ==
  \A e \in experiments :
    \A results \in ExperimentResults(e.name) :
      /\ Lookup(results, "total_trials").val = Cardinality(AllReturnedOk)
      /\ \A v \in VariantNames :
           /\ TrialsIn(results, v) = Cardinality(ReturnedOk(v))
           /\ SuccessesIn(results, v) = Cardinality(ReturnedOkWith(v))

\* two calls for the same variant whose statements overlapped have both
\* returned successfully
C15_Witness ==
  \E t, u \in Threads :
    /\ t # u
    /\ t \in AllReturnedOk /\ u \in AllReturnedOk
    /\ connections[t].variant = connections[u].variant

\* ---------------------------------------------------------------- significance claims
Calculated == ret.op = "calculate_significance"

ValidCounts ==
  /\ 0 <= arguments.a_successes /\ arguments.a_successes <= arguments.a_trials
  /\ 0 <= arguments.b_successes /\ arguments.b_successes <= arguments.b_trials

\* C16: with a_trials < 30 or b_trials < 30 calculate_significance returns
\* (False, 0.0, None), whatever the success counts and the other trial count.
C16_BelowThirtyShortCircuits ==
  (Calculated /\ (arguments.a_trials < 30 \/ arguments.b_trials < 30))
    => (ret.status = "ok" /\ ret.value = <<FALSE, 0, None>>)

\* one variant has 29 trials, the other 30 or more and a different rate, and
\* the level asked for is 0
C16_Witness ==
  /\ Calculated
  /\ arguments.a_trials = 29 /\ arguments.b_trials >= 30
  /\ arguments.a_successes = 0 /\ arguments.b_successes = arguments.b_trials
  /\ arguments.confidence_level = 0

\* C17: for valid counts and every confidence_level the confidence returned
\* is in [0, 1] and the winner is not None only when is_significant is true.
C17_ConfidenceInRange ==
  (Calculated /\ ValidCounts) =>
    /\ ret.status = "ok"
    /\ 0 <= ret.value[2] /\ ret.value[2] <= One
    /\ ret.value[3] # None => ret.value[1] = TRUE

\* variant b has the higher rate, which makes z negative, and the inference
\* has run
C17_Witness ==
  /\ Calculated
  /\ arguments.a_trials >= 30 /\ arguments.b_trials >= 30
  /\ arguments.a_successes * arguments.b_trials
       < arguments.b_successes * arguments.a_trials
  /\ ret.value[2] > 0

Exchanged(winner) ==
  IF winner = "a" THEN "b" ELSE IF winner = "b" THEN "a" ELSE winner

\* C18: calculate_significance with the two variants swapped reports the same
\* is_significant and confidence and the exchanged winner, for all valid
\* counts and every confidence_level, also when the two rates are equal.
C18_Symmetric ==
  (Calculated /\ ValidCounts) =>
    LET swapped == calculate_significance(arguments.b_trials, arguments.b_successes,
                                          arguments.a_trials, arguments.a_successes,
                                          arguments.confidence_level)
    IN /\ swapped.status = ret.status
       /\ swapped.value[1] = ret.value[1]
       /\ swapped.value[2] = ret.value[2]
       /\ swapped.value[3] = Exchanged(ret.value[3])

\* C19: a significant result names as winner the variant of the strictly
\* higher raw success rate, and analyze_experiment of control 40 trials / 20
\* successes and treatment 40 / 30 at level 0.95 names 'treatment'.
C19_WinnerHasHigherRate ==
  /\ (Calculated /\ ret.status = "ok" /\ ret.value[1] = TRUE) =>
       \/ /\ ret.value[3] = "a"
          /\ arguments.a_successes * arguments.b_trials
               > arguments.b_successes * arguments.a_trials
       \/ /\ ret.value[3] = "b"
          /\ arguments.b_successes * arguments.a_trials
               > arguments.a_successes * arguments.b_trials
  /\ ( /\ ret.op = "analyze_experiment" /\ ret.status = "ok"
       /\ arguments = [a_trials |-> 40, a_successes |-> 20,
                       b_trials |-> 40, b_successes |-> 30,
                       confidence_level |-> 9500] )
       => ret.value.winner = "treatment"

\* C20: with both trial counts >= 30 and the two variants together having 0
\* successes, or as many successes as trials, calculate_significance returns
\* (False, 0.0, None) for every confidence_level.
C20_DegenerateNotSignificant ==
  ( /\ Calculated
    /\ arguments.a_trials >= 30 /\ arguments.b_trials >= 30
    /\ \/ arguments.a_successes + arguments.b_successes = 0
       \/ arguments.a_successes + arguments.b_successes
            = arguments.a_trials + arguments.b_trials )
    => (ret.status = "ok" /\ ret.value = <<FALSE, 0, None>>)

\* both variants succeeded in every one of 30 or more trials, and the level
\* asked for is 0
C20_Witness ==
  /\ Calculated
  /\ arguments.a_trials >= 30 /\ arguments.b_trials >= 30
  /\ arguments.a_successes = arguments.a_trials
  /\ arguments.b_successes = arguments.b_trials
  /\ arguments.confidence_level = 0

\* ---------------------------------------------------------------- history claims
\* C21: every register call succeeds and creates a version whose number the
\* prompt did not have, after any register and rollback calls; and after every
\* call no two versions of a prompt share a number and current_version is the
\* number of a stored version.
C21_RegisterAlwaysSucceeds ==
  [][/\ ret'.op = "register"
          => /\ ret'.status = "ok"
             /\ ~VersionExists(ret'.name, ret'.value[1])
             /\ \E r \in prompt_versions' :
                  r.prompt_name = ret'.name /\ r.version = ret'.value[1]
     /\ \A r, q \in prompt_versions' :
          (r.prompt_name = q.prompt_name /\ r.version = q.version) => r = q
     /\ \A name \in DOMAIN prompts' :
          \E r \in prompt_versions' :
            r.prompt_name = name /\ r.version = prompts'[name].current_version]_vars

\* C22: a prompt's active_experiment names an experiment exactly when the
\* prompt has a running experiment, and then names that one, whatever the
\* order of the register and create_experiment calls.
C22_ActiveExperimentTracksRunning ==
  \A name \in DOMAIN prompts :
    /\ prompts[name].active_experiment # None <=> HasRunning(name)
    /\ prompts[name].active_experiment # None
         => \E e \in experiments :
              /\ e.name = prompts[name].active_experiment
              /\ e.prompt_name = name /\ e.status = "running"

\* C23: while a prompt has a running experiment, get_variant returns without
\* an exception one of the experiment's stored variant names (not None, not
\* 'default') and that variant's content.
C23_VariantOfExperiment ==
  (ret.op = "get_variant" /\ HasRunning(ret.name)) =>
    /\ ret.status = "ok"
    /\ ret.value[2] \notin {None, "default"}
    /\ \E e \in experiments :
         /\ e.prompt_name = ret.name /\ e.status = "running"
         /\ ret.value[2] \in Keys(json_loads(e.variants))
         /\ ret.value[1] = Lookup(json_loads(e.variants), ret.value[2]).content

\* C24: for every prompt export writes a content and a version such that the
\* version is the prompt's current version and the content is the content of
\* that version, after any register and rollback calls.
C24_ExportWritesCurrentVersion ==
  ret.op = "export" =>
    /\ Keys(ret.value) = DOMAIN prompts
    /\ \A name \in DOMAIN prompts :
         LET written == Lookup(ret.value, name) IN
         /\ written.version = prompts[name].current_version
         /\ \E r \in prompt_versions :
              /\ r.prompt_name = name
              /\ r.version = written.version
              /\ r.content = written.content

====
